---- MODULE Spec2Model ----
(***************************************************************************)
(* Model of dfs_scraper.py: the scrapers DailyNBALineups,                  *)
(* RotoWorldInjuries, RotoWorldNews and OddsShark, their team, date and    *)
(* salary conversions, and the module-level name converter.                *)
(*                                                                         *)
(* Text is a sequence of one-character strings, so that the regular        *)
(* expressions of the source are matched character by character.           *)
(***************************************************************************)
EXTENDS Integers, Sequences, FiniteSets, TLC

VARIABLES
    year,             \* the clock's year, RotoWorldInjuries.year after __init__
    month,            \* the clock's month, RotoWorldInjuries.month after __init__
    fn,               \* name of the conversion that was called last
    src,              \* what the scraped fragment passed to it denotes
    arg,              \* its argument: the fragment's text
    ret,              \* what it returned or raised
    out,              \* the lines it printed
    unhandled_names,  \* name_converter.unhandled_names (module level)
    sessions,         \* number of scrapers constructed by the process so far
    scraper,          \* class of the scraper whose scrape() is running or ran last
    pc,               \* where that scrape() is: idle, extract, finish, returned, raised
    todo,             \* records (games, teams, news items, matchups) left on the page
    todo_rows,        \* injury rows left in the team being extracted
    team,             \* RotoWorldInjuries.scrape: the local variable team
    df,               \* self.df, a sequence of rows
    matchup_teams,    \* OddsShark.scrape: the local list matchup_teams
    stdout,           \* the lines printed since the scraper was constructed
    early_thresh,     \* RotoWorldNews.early_thresh
    max_pages,        \* RotoWorldNews.max_pages
    page_count,       \* RotoWorldNews.page_count
    depth,            \* number of active frames of RotoWorldNews.scrape
    clicks,           \* times the 'older news' button was clicked
    filtered,         \* history: this scrape has applied the threshold filter
    failed_now,       \* history: raw names that failed to resolve in this session
    n_finish          \* history: times the finishing step of scrape ran

clockVars == <<year, month>>
callVars == <<fn, src, arg, ret, out>>
newsVars == <<early_thresh, max_pages, page_count, depth, clicks, filtered>>
sessionVars == <<unhandled_names, sessions, scraper, pc, todo, todo_rows, team,
                 df, matchup_teams, stdout, newsVars, failed_now, n_finish>>
vars == <<clockVars, callVars, sessionVars>>

----------------------------------------------------------------------------
(* Bounds of the model *)

NumRefYears == 2          \* how many reference years, from 2024 on, are tried
MaxThousands == 11        \* largest integer part of a salary shorthand
MaxMatchups == 2          \* largest number of matchups on the odds page
MaxSessions == 2          \* scrapers constructed by one process
MaxRows == 2              \* largest number of games on a page, of injuries of a team
MaxTeams == 1             \* largest number of teams on the injuries page
MaxNewsRows == 1          \* largest number of news items on one page
MaxPages == 2             \* largest max_pages given to RotoWorldNews

----------------------------------------------------------------------------
(* Python values *)

None == [kind |-> "None"]
NaN == [kind |-> "NaN"]
PyInt(n) == [kind |-> "int", val |-> n]
PyStr(s) == [kind |-> "str", val |-> s]
PyBool(b) == [kind |-> "bool", val |-> b]
Datetime(y, mo, d, h, mi) ==
    [kind |-> "datetime", year |-> y, month |-> mo, day |-> d,
     hour |-> h, minute |-> mi]

\* The outcome of a call: a returned value or a raised exception.
Return(v) == [raised |-> FALSE, val |-> v]
Raise(e) == [raised |-> TRUE, exc |-> e]

----------------------------------------------------------------------------
(* Characters and the classes the regular expressions use *)

Upper == {"A", "B", "C", "D", "E", "F", "G", "H", "I", "J", "K", "L", "M",
          "N", "O", "P", "Q", "R", "S", "T", "U", "V", "W", "X", "Y", "Z"}
Lower == {"a", "b", "c", "d", "e", "f", "g", "h", "i", "j", "k", "l", "m",
          "n", "o", "p", "q", "r", "s", "t", "u", "v", "w", "x", "y", "z"}
Digit == {"0", "1", "2", "3", "4", "5", "6", "7", "8", "9"}
Whitespace == {" ", "\t", "\n"}

DigitVal(c) ==
    CASE c = "0" -> 0 [] c = "1" -> 1 [] c = "2" -> 2 [] c = "3" -> 3
      [] c = "4" -> 4 [] c = "5" -> 5 [] c = "6" -> 6 [] c = "7" -> 7
      [] c = "8" -> 8 [] c = "9" -> 9

\* int() of a non-empty string of decimal digits
RECURSIVE int(_)
int(ds) ==
    IF Len(ds) = 0 THEN 0
    ELSE int(SubSeq(ds, 1, Len(ds) - 1)) * 10 + DigitVal(ds[Len(ds)])

\* s[i..] starts with the literal lit
HasLit(s, i, lit) ==
    /\ i + Len(lit) - 1 <= Len(s)
    /\ \A j \in 1..Len(lit) : s[i + j - 1] = lit[j]

\* the n characters of s from position i on all belong to class
HasRun(s, i, n, class) ==
    /\ i + n - 1 <= Len(s)
    /\ \A j \in 0..(n - 1) : s[i + j] \in class

\* A match is <<start, q1, q2, q3>>: where it starts and how many characters
\* each of the pattern's quantifiers took.  re.findall(...)[0] is the match
\* the regex engine finds first: leftmost start, then every quantifier as
\* greedy as backtracking allows, the earlier quantifier first.
Earlier(m, n) ==
    \/ m[1] < n[1]
    \/ m[1] = n[1] /\ m[2] > n[2]
    \/ m[1] = n[1] /\ m[2] = n[2] /\ m[3] > n[3]
    \/ m[1] = n[1] /\ m[2] = n[2] /\ m[3] = n[3] /\ m[4] >= n[4]

FirstMatch(M) == CHOOSE m \in M : \A n \in M : Earlier(m, n)

\* the positions of s that hold a character of class
Positions(s, class) == {i \in 1..Len(s) : s[i] \in class}

----------------------------------------------------------------------------
(* scrape.month_conversion and scrape.clean_html *)

MonthAbbrevs ==
    << <<"J", "a", "n">>, <<"F", "e", "b">>, <<"M", "a", "r">>,
       <<"A", "p", "r">>, <<"M", "a", "y">>, <<"J", "u", "n">>,
       <<"J", "u", "l">>, <<"A", "u", "g">>, <<"S", "e", "p">>,
       <<"O", "c", "t">>, <<"N", "o", "v">>, <<"D", "e", "c">> >>

\* the fixed 12-entry table from month abbreviation to month number
month_conversion_keys == {MonthAbbrevs[i] : i \in 1..12}
month_conversion(k) == CHOOSE i \in 1..12 : MonthAbbrevs[i] = k

\* clean_html strips the whitespace around a text fragment
RECURSIVE lstrip(_)
lstrip(s) ==
    IF Len(s) > 0 /\ s[1] \in Whitespace THEN lstrip(Tail(s)) ELSE s
RECURSIVE rstrip(_)
rstrip(s) ==
    IF Len(s) > 0 /\ s[Len(s)] \in Whitespace
    THEN rstrip(SubSeq(s, 1, Len(s) - 1)) ELSE s
clean_html(s) == lstrip(rstrip(s))

----------------------------------------------------------------------------
(* datetime.datetime(year, month, day, hour, minute) *)

IsLeap(y) == (y % 4 = 0 /\ y % 100 # 0) \/ y % 400 = 0
DaysInMonth(y, mo) ==
    IF mo = 2 THEN (IF IsLeap(y) THEN 29 ELSE 28)
    ELSE IF mo \in {4, 6, 9, 11} THEN 30 ELSE 31

datetime(y, mo, d, h, mi) ==
    IF /\ y \in 1..9999 /\ mo \in 1..12 /\ d \in 1..DaysInMonth(y, mo)
       /\ h \in 0..23 /\ mi \in 0..59
    THEN Return(Datetime(y, mo, d, h, mi))
    ELSE Raise("ValueError")

----------------------------------------------------------------------------
(* RotoWorldInjuries.parse_date *)

\* regexp = '([A-Z][a-z]{2,3})\s?(\d{1,2})'
InjDateMatches(s) ==
    {m \in Positions(s, Upper) \X (2..3) \X (0..1) \X (1..2) :
        /\ HasRun(s, m[1] + 1, m[2], Lower)
        /\ HasRun(s, m[1] + 1 + m[2], m[3], Whitespace)
        /\ HasRun(s, m[1] + 1 + m[2] + m[3], m[4], Digit)}

\* pieces = re.findall(regexp, date_str)[0]
InjDatePieces(s) ==
    LET m == FirstMatch(InjDateMatches(s))
    IN  << SubSeq(s, m[1], m[1] + m[2]),
           SubSeq(s, m[1] + m[2] + m[3] + 1, m[1] + m[2] + m[3] + m[4]) >>

\* RotoWorldInjuries.parse_date with the month comparison off by one
Mut_parse_date_same_month(self_year, self_month, date_str) ==
    LET s == clean_html(date_str)
        failed == [ret |-> None, out |-> <<"Warning: Failed to clean string to datetime">>]
    IN  IF InjDateMatches(s) = {} THEN failed
        ELSE LET pieces == InjDatePieces(s)
             IN  IF pieces[1] \notin month_conversion_keys THEN failed
                 ELSE LET mo == month_conversion(pieces[1])
                          y == IF mo >= self_month THEN self_year - 1
                               ELSE self_year
                          dt == datetime(y, mo, int(pieces[2]), 0, 0)
                      IN  IF dt.raised THEN failed
                          ELSE [ret |-> dt.val, out |-> <<>>]

\* Returns [ret |-> the datetime or None, out |-> the lines printed].
RotoWorldInjuries_parse_date(self_year, self_month, date_str) ==
    LET s == clean_html(date_str)
        failed == [ret |-> None, out |-> <<"Warning: Failed to clean string to datetime">>]
    IN  IF InjDateMatches(s) = {} THEN failed                \* IndexError
        ELSE LET pieces == InjDatePieces(s)
             IN  IF pieces[1] \notin month_conversion_keys THEN failed   \* KeyError
                 ELSE LET mo == month_conversion(pieces[1])
                          y == IF mo > self_month THEN self_year - 1
                               ELSE self_year
                          day == int(pieces[2])
                          dt == datetime(y, mo, day, 0, 0)
                      IN  IF dt.raised THEN failed            \* ValueError
                          ELSE [ret |-> dt.val, out |-> <<>>]

----------------------------------------------------------------------------
(* RotoWorldNews.parse_date *)

\* regexp = '([A-Z][a-z]{2,3})\s(\d{1,2})\s\-\s(\d{1,2}):(\d{2})\s(AM|PM)'
\* A match is <<start, letters, day digits, hour digits>>.
NewsDateMatches(s) ==
    {m \in Positions(s, Upper) \X (2..3) \X (1..2) \X (1..2) :
        LET a == m[1] + 1 + m[2]        \* the white space after the month
            b == a + 1 + m[3]           \* the white space after the day
            c == b + 3 + m[4]           \* the colon
        IN  /\ HasRun(s, m[1] + 1, m[2], Lower)
            /\ HasRun(s, a, 1, Whitespace)
            /\ HasRun(s, a + 1, m[3], Digit)
            /\ HasRun(s, b, 1, Whitespace)
            /\ HasLit(s, b + 1, <<"-">>)
            /\ HasRun(s, b + 2, 1, Whitespace)
            /\ HasRun(s, b + 3, m[4], Digit)
            /\ HasLit(s, c, <<":">>)
            /\ HasRun(s, c + 1, 2, Digit)
            /\ HasRun(s, c + 3, 1, Whitespace)
            /\ (HasLit(s, c + 4, <<"A", "M">>) \/ HasLit(s, c + 4, <<"P", "M">>))}

\* pieces = re.findall(regexp, date_str)[0]
NewsDatePieces(s) ==
    LET m == FirstMatch(NewsDateMatches(s))
        a == m[1] + 1 + m[2]
        b == a + 1 + m[3]
        c == b + 3 + m[4]
    IN  << SubSeq(s, m[1], m[1] + m[2]),
           SubSeq(s, a + 1, a + m[3]),
           SubSeq(s, b + 3, b + 2 + m[4]),
           SubSeq(s, c + 1, c + 2),
           SubSeq(s, c + 4, c + 5) >>

NewsYear == 2018

\* RotoWorldNews.parse_date without the twelve hours added for PM
Mut_parse_date_no_pm(date_str) ==
    IF NewsDateMatches(date_str) = {} THEN None
    ELSE LET pieces == NewsDatePieces(date_str)
         IN  IF pieces[1] \notin month_conversion_keys THEN None
             ELSE LET dt == datetime(NewsYear, month_conversion(pieces[1]),
                                     int(pieces[2]), int(pieces[3]),
                                     int(pieces[4]))
                  IN  IF dt.raised THEN None ELSE dt.val

\* Returns the datetime or None; prints nothing.
RotoWorldNews_parse_date(date_str) ==
    IF NewsDateMatches(date_str) = {} THEN None               \* IndexError
    ELSE LET pieces == NewsDatePieces(date_str)
         IN  IF pieces[1] \notin month_conversion_keys THEN None   \* KeyError
             ELSE LET mo == month_conversion(pieces[1])
                      day == int(pieces[2])
                      hour0 == int(pieces[3])
                      minute == int(pieces[4])
                      hour == IF pieces[5] = <<"P", "M">> THEN hour0 + 12
                              ELSE hour0
                      dt == datetime(NewsYear, mo, day, hour, minute)
                  IN  IF dt.raised THEN None                  \* ValueError
                      ELSE dt.val

----------------------------------------------------------------------------
(* DailyNBALineups.convert_salary and _extract_team_starters *)

\* regexp = '\$(\d{1,2})\.(\d)K'; a match is <<start, digits, 0, 0>>.
SalaryMatches(s) ==
    {m \in Positions(s, {"$"}) \X (1..2) \X {0} \X {0} :
        /\ HasRun(s, m[1] + 1, m[2], Digit)
        /\ HasLit(s, m[1] + 1 + m[2], <<".">>)
        /\ HasRun(s, m[1] + 2 + m[2], 1, Digit)
        /\ HasLit(s, m[1] + 3 + m[2], <<"K">>)}

\* convert_salary with the fractional digit counted as tens
Mut_convert_salary_tens(salary_str) ==
    IF SalaryMatches(salary_str) = {} THEN Raise("IndexError")
    ELSE LET m == FirstMatch(SalaryMatches(salary_str))
             thousands == int(SubSeq(salary_str, m[1] + 1, m[1] + m[2]))
             hundreds == int(<<salary_str[m[1] + 2 + m[2]]>>)
         IN  Return(PyInt(thousands * 1000 + hundreds * 10))

\* convert_salary returning zero for a text without a shorthand
Mut_convert_salary_zero(salary_str) ==
    IF SalaryMatches(salary_str) = {} THEN Return(PyInt(0))
    ELSE LET m == FirstMatch(SalaryMatches(salary_str))
             thousands == int(SubSeq(salary_str, m[1] + 1, m[1] + m[2]))
             hundreds == int(<<salary_str[m[1] + 2 + m[2]]>>)
         IN  Return(PyInt(thousands * 1000 + hundreds * 100))

convert_salary(salary_str) ==
    IF SalaryMatches(salary_str) = {} THEN Raise("IndexError")
    ELSE LET m == FirstMatch(SalaryMatches(salary_str))
             thousands == int(SubSeq(salary_str, m[1] + 1, m[1] + m[2]))
             hundreds == int(<<salary_str[m[1] + 2 + m[2]]>>)
         IN  Return(PyInt(thousands * 1000 + hundreds * 100))

\* The fds and dks entries of the row made from one table cell whose
\* salary links carry the texts sal_tags.
extract_team_starters_salaries(sal_tags) ==
    LET fds0 == IF Len(sal_tags) < 1 THEN Raise("IndexError")
                ELSE convert_salary(sal_tags[1])
        dks0 == IF Len(sal_tags) < 2 THEN Raise("IndexError")
                ELSE convert_salary(sal_tags[2])
        fds == IF fds0.raised THEN NaN ELSE fds0.val                 \* bare except
    IN  IF dks0.raised /\ dks0.exc # "IndexError" THEN Raise(dks0.exc)
        ELSE Return([fds |-> fds,
                     dks |-> IF dks0.raised THEN NaN ELSE dks0.val])

----------------------------------------------------------------------------
(* dfm.create_team_mapping and the four convert_team methods *)

\* The conversion tables, for three franchises.
MascotTable == [t \in {"Lakers", "Bulls", "Celtics"} |->
    CASE t = "Lakers" -> "LAL" [] t = "Bulls" -> "CHI" [] t = "Celtics" -> "BOS"]
FullNameTable ==
    [t \in {"Los Angeles Lakers", "Chicago Bulls", "Boston Celtics"} |->
    CASE t = "Los Angeles Lakers" -> "LAL" [] t = "Chicago Bulls" -> "CHI"
      [] t = "Boston Celtics" -> "BOS"]
ShortNameTable == [t \in {"LA Lakers", "Chicago", "Boston"} |->
    CASE t = "LA Lakers" -> "LAL" [] t = "Chicago" -> "CHI" [] t = "Boston" -> "BOS"]

create_team_mapping(key, value) ==
    CASE key = "mascot" -> MascotTable
      [] key = "full_name" -> FullNameTable
      [] key = "short_name" -> ShortNameTable

\* self.team_conversion of each class, set in its __init__
team_conversion(class) ==
    CASE class = "DailyNBALineups" -> create_team_mapping("mascot", "nba_code")
      [] class = "RotoWorldInjuries" -> create_team_mapping("full_name", "nba_code")
      [] class = "RotoWorldNews" -> create_team_mapping("mascot", "nba_code")
      [] class = "OddsShark" -> create_team_mapping("short_name", "nba_code")

\* Each returns [ret |-> the value returned, out |-> the lines printed].
DailyNBALineups_convert_team(team_name) ==
    IF team_name \in DOMAIN team_conversion("DailyNBALineups")
    THEN [ret |-> PyStr(team_conversion("DailyNBALineups")[team_name]),
          out |-> <<>>]
    ELSE [ret |-> None, out |-> <<"Failed converting team name">>]

RotoWorldInjuries_convert_team(team_name) ==
    IF team_name \in DOMAIN team_conversion("RotoWorldInjuries")
    THEN [ret |-> PyStr(team_conversion("RotoWorldInjuries")[team_name]),
          out |-> <<>>]
    ELSE [ret |-> PyStr(team_name),
          out |-> <<"Warning: Failed converting team name">>]

\* RotoWorldNews.convert_team handing back the label it could not convert
Mut_convert_team_raw(team_name) ==
    IF team_name \in DOMAIN team_conversion("RotoWorldNews")
    THEN [ret |-> PyStr(team_conversion("RotoWorldNews")[team_name]),
          out |-> <<>>]
    ELSE [ret |-> PyStr(team_name), out |-> <<"Failed converting team name">>]

RotoWorldNews_convert_team(team_name) ==
    IF team_name \in DOMAIN team_conversion("RotoWorldNews")
    THEN [ret |-> PyStr(team_conversion("RotoWorldNews")[team_name]),
          out |-> <<>>]
    ELSE [ret |-> None, out |-> <<"Failed converting team name">>]

OddsShark_convert_team(team_name) ==
    IF team_name \in DOMAIN team_conversion("OddsShark")
    THEN [ret |-> PyStr(team_conversion("OddsShark")[team_name]), out |-> <<>>]
    ELSE [ret |-> PyStr(team_name),
          out |-> <<"Warning: Failed to clean to nba_code form">>]

----------------------------------------------------------------------------
(* OddsShark.teams_provided_in_short_name and the end of OddsShark.scrape *)

RECURSIVE count_short_of(_)
count_short_of(teams) ==
    IF teams = <<>> THEN 0
    ELSE LET pair == teams[Len(teams)]
         IN  count_short_of(SubSeq(teams, 1, Len(teams) - 1))
               + (IF pair[1] \in DOMAIN team_conversion("OddsShark") THEN 1 ELSE 0)
               + (IF pair[2] \in DOMAIN team_conversion("OddsShark") THEN 1 ELSE 0)

\* count_short/total_teams is a true division; for these small integers the
\* quotient exceeds 0.5 exactly when 2*count_short exceeds total_teams.
teams_provided_in_short_name(teams) ==
    LET total_teams == Len(teams) * 2
        count_short == count_short_of(teams)
    IN  IF total_teams = 0 THEN Raise("ZeroDivisionError")
        ELSE Return(PyBool(2 * count_short > total_teams))

\* The rows appended for the matchups: two per matchup, the second mirrored.
RECURSIVE compile_rows(_)
compile_rows(teams) ==
    IF teams = <<>> THEN <<>>
    ELSE LET pair == teams[Len(teams)]
         IN  compile_rows(SubSeq(teams, 1, Len(teams) - 1))
               \o << [team |-> PyStr(pair[1]), opp |-> PyStr(pair[2])],
                     [team |-> PyStr(pair[2]), opp |-> PyStr(pair[1])] >>

RECURSIVE concat_out(_, _)
concat_out(rows, col) ==
    IF rows = <<>> THEN <<>>
    ELSE OddsShark_convert_team(rows[1][col].val).out \o concat_out(Tail(rows), col)

\* Lines 454-473 of scrape, restricted to the team and opp columns: the rows
\* are compiled, and converted when the labels are in short-name form.
\* Returns [ret |-> Return(rows) or Raise(exception), out |-> the lines printed].
OddsShark_scrape_compile(teams) ==
    LET rows == compile_rows(teams)
        short == teams_provided_in_short_name(teams)
    IN  IF short.raised THEN [ret |-> short, out |-> <<>>]
        ELSE IF short.val.val
        THEN [ret |-> Return([i \in 1..Len(rows) |->
                        [team |-> OddsShark_convert_team(rows[i].team.val).ret,
                         opp |-> OddsShark_convert_team(rows[i].opp.val).ret]]),
              out |-> concat_out(rows, "team") \o concat_out(rows, "opp")]
        ELSE [ret |-> Return(rows), out |-> <<>>]

----------------------------------------------------------------------------
(* The text of scraped fragments *)

DigitChar(n) == CHOOSE c \in Digit : DigitVal(c) = n
ToDigits(n) == IF n < 10 THEN <<DigitChar(n)>>
               ELSE <<DigitChar(n \div 10), DigitChar(n % 10)>>
TwoDigits(n) == <<DigitChar(n \div 10), DigitChar(n % 10)>>

RefYears == 2024..(2024 + NumRefYears - 1)

\* Date-only descriptions such as 'Jan 11': the month's abbreviation, at most
\* one white space and the day, possibly inside other text.
DateOnlyFragments ==
    {[src |-> [form |-> "date-only", mo |-> mo, d |-> d],
      text |-> pre \o MonthAbbrevs[mo] \o sep \o ToDigits(d) \o suf] :
        mo \in 1..12, d \in {0, 1, 9, 10, 28, 29, 30, 31, 32}, pre \in {<<>>, <<" ">>},
        sep \in {<<>>, <<" ">>}, suf \in {<<>>, <<",">>}}

MalformedDateOnlyFragments ==
    {[src |-> [form |-> "malformed"], text |-> t] :
        t \in {<<>>, <<"j", "a", "n", " ", "1", "1">>,
               <<"X", "y", "z", " ", "1", "1">>,
               <<"S", "e", "p", "t", " ", "5">>,
               <<"J", "a", "n", "u", "a", " ", "5">>,
               <<"J", "a", "n", " ", " ", "1", "1">>,
               <<"1", "1", " ", "J", "a", "n">>,
               <<"J", "a", "n">>}}

\* Date-with-time descriptions such as 'Jan 11 - 7:05 PM'.
DateTimeText(mo, d, h, mi, marker) ==
    MonthAbbrevs[mo] \o <<" ">> \o ToDigits(d) \o <<" ", "-", " ">>
        \o ToDigits(h) \o <<":">> \o TwoDigits(mi) \o <<" ">> \o marker

DateTimeFragments ==
    {[src |-> [form |-> "date-time", mo |-> mo, d |-> d, h |-> h, mi |-> mi,
               pm |-> pm],
      text |-> DateTimeText(mo, d, h, mi,
                            IF pm THEN <<"P", "M">> ELSE <<"A", "M">>)] :
        mo \in 1..12, d \in {1, 29, 31}, h \in 0..13, mi \in {5, 60},
        pm \in BOOLEAN}

MalformedDateTimeFragments ==
    {[src |-> [form |-> "malformed"], text |-> t] :
        t \in {<<>>, <<"J", "a", "n", " ", "1", "1">>,
               <<"X", "y", "z", " ", "1", " ", "-", " ", "7", ":", "0", "5", " ", "P", "M">>,
               <<"J", "a", "n", " ", "1", " ", "-", " ", "7", ":", "5", " ", "P", "M">>,
               <<"J", "a", "n", " ", "1", " ", "-", " ", "7", ":", "0", "5", " ", "p", "m">>,
               <<"J", "a", "n", " ", "1", " ", "7", ":", "0", "5", " ", "P", "M">>}}

\* Salary shorthands such as '$8.7K', and texts that differ from one.
IntegerParts ==
    {[t |-> t, text |-> ToDigits(t)] : t \in 0..MaxThousands}
        \cup {[t |-> t, text |-> TwoDigits(t)] : t \in 0..9}

SalaryBodies(ip, h) ==
    {[form |-> "shorthand", text |-> <<"$">> \o ip \o <<".", DigitChar(h), "K">>],
     [form |-> "no-marker", text |-> ip \o <<".", DigitChar(h), "K">>],
     [form |-> "no-point", text |-> <<"$">> \o ip \o <<DigitChar(h), "K">>],
     [form |-> "no-unit", text |-> <<"$">> \o ip \o <<".", DigitChar(h)>>],
     [form |-> "small-k", text |-> <<"$">> \o ip \o <<".", DigitChar(h), "k">>],
     [form |-> "two-fraction-digits",
      text |-> <<"$">> \o ip \o <<".", DigitChar(h), DigitChar(h), "K">>],
     [form |-> "three-digits",
      text |-> <<"$", "1", "2">> \o ip \o <<".", DigitChar(h), "K">>]}

SalaryFragments ==
    UNION {{[src |-> [form |-> b.form, t |-> ip.t, h |-> h, pre |-> pre, suf |-> suf],
             text |-> pre \o b.text \o suf] :
                b \in SalaryBodies(ip.text, h),
                pre \in {<<>>, <<" ">>, <<"x">>}, suf \in {<<>>, <<"x">>}} :
           <<ip, h>> \in IntegerParts \X {0, 7, 9}}
      \cup {[src |-> [form |-> "garbage", t |-> 0, h |-> 0, pre |-> <<>>,
                      suf |-> <<>>], text |-> t] :
                t \in {<<>>, <<"g", "a", "r", "b", "a", "g", "e">>}}

\* The salary links of one table cell: none, one or two.
SalaryLinkTexts ==
    {<<"$", "8", ".", "7", "K">>, <<"$", "1", "0", ".", "0", "K">>,
     <<" ", "$", "8", ".", "7", "K">>, <<"8", ".", "7", "K">>, <<>>}
SalaryLinks ==
    {<<>>} \cup {<<a>> : a \in SalaryLinkTexts}
           \cup {<<a, b>> : a \in SalaryLinkTexts, b \in SalaryLinkTexts}

\* Raw team labels: the keys of the tables, team codes, and neither.
TeamLabels ==
    DOMAIN MascotTable \cup DOMAIN FullNameTable \cup DOMAIN ShortNameTable
        \cup {"LAL", "CHI", "BOS", "Supersonics", ""}

\* The matchups of one odds page.
MatchupLabels == {"Chicago", "LA Lakers", "CHI"}
RECURSIVE MatchupsOfLen(_)
MatchupsOfLen(n) ==
    IF n = 0 THEN {<<>>}
    ELSE {Append(ms, <<t, o>>) :
            ms \in MatchupsOfLen(n - 1), t \in MatchupLabels, o \in MatchupLabels}
Matchups == UNION {MatchupsOfLen(n) : n \in 0..MaxMatchups}

----------------------------------------------------------------------------
(* Specifications of the conversions: a session is constructed with the    *)
(* clock at some reference moment, then fragments are converted.           *)

\* Nothing has been converted.
NoCall ==
    /\ fn = "none"
    /\ src = [form |-> "none"]
    /\ arg = <<>>
    /\ ret = Return(None)
    /\ out = <<>>

\* The module has been imported (name_converter is constructed, its log
\* empty) and no scraper has been constructed.
NoSession ==
    /\ unhandled_names = <<>>
    /\ sessions = 0
    /\ scraper = "none"
    /\ pc = "idle"
    /\ todo = 0
    /\ todo_rows = 0
    /\ team = None
    /\ df = <<>>
    /\ matchup_teams = <<>>
    /\ stdout = <<>>
    /\ early_thresh = None
    /\ max_pages = 0
    /\ page_count = 0
    /\ depth = 0
    /\ clicks = 0
    /\ filtered = FALSE
    /\ failed_now = {}
    /\ n_finish = 0

InitConversions ==
    /\ year \in RefYears
    /\ month \in 1..12
    /\ NoCall
    /\ NoSession

\* A fragment is converted once: nothing has been called before.
NotCalled == fn = "none"

Called(f, s, a, r, o) ==
    /\ fn' = f
    /\ src' = s
    /\ arg' = a
    /\ ret' = r
    /\ out' = o
    /\ UNCHANGED <<clockVars, sessionVars>>

InjuriesParseDate ==
    /\ NotCalled
    /\ \E f \in DateOnlyFragments \cup MalformedDateOnlyFragments :
        LET r == RotoWorldInjuries_parse_date(year, month, f.text)
        IN  Called("RotoWorldInjuries.parse_date", f.src, f.text,
                   Return(r.ret), r.out)

NewsParseDate ==
    /\ NotCalled
    /\ \E f \in DateTimeFragments \cup MalformedDateTimeFragments :
        Called("RotoWorldNews.parse_date", f.src, f.text,
               Return(RotoWorldNews_parse_date(f.text)), <<>>)

NextDate == InjuriesParseDate \/ NewsParseDate
SpecDate == InitConversions /\ [][NextDate]_vars

ConvertSalary ==
    /\ NotCalled
    /\ \E f \in SalaryFragments :
        Called("convert_salary", f.src, f.text, convert_salary(f.text), <<>>)

ExtractTeamStarters ==
    /\ NotCalled
    /\ \E tags \in SalaryLinks :
        Called("_extract_team_starters", [form |-> "salary-links"], tags,
               extract_team_starters_salaries(tags), <<>>)

NextSalary == ConvertSalary \/ ExtractTeamStarters
SpecSalary == InitConversions /\ [][NextSalary]_vars

ConvertTeam(class, r, t) ==
    Called(class, [form |-> "team"], t, Return(r.ret), r.out)

LineupsConvertTeam ==
    /\ NotCalled
    /\ \E t \in TeamLabels :
        ConvertTeam("DailyNBALineups.convert_team", DailyNBALineups_convert_team(t), t)
InjuriesConvertTeam ==
    /\ NotCalled
    /\ \E t \in TeamLabels :
        ConvertTeam("RotoWorldInjuries.convert_team", RotoWorldInjuries_convert_team(t), t)
NewsConvertTeam ==
    /\ NotCalled
    /\ \E t \in TeamLabels :
        ConvertTeam("RotoWorldNews.convert_team", RotoWorldNews_convert_team(t), t)
OddsSharkConvertTeam ==
    /\ NotCalled
    /\ \E t \in TeamLabels :
        ConvertTeam("OddsShark.convert_team", OddsShark_convert_team(t), t)

OddsSharkTeamsProvided ==
    /\ NotCalled
    /\ \E ms \in Matchups :
        Called("OddsShark.teams_provided_in_short_name", [form |-> "matchups"],
               ms, teams_provided_in_short_name(ms), <<>>)

OddsSharkScrape ==
    /\ NotCalled
    /\ \E ms \in Matchups :
        LET r == OddsShark_scrape_compile(ms)
        IN  Called("OddsShark.scrape", [form |-> "matchups"], ms, r.ret, r.out)

NextTeam ==
    \/ LineupsConvertTeam \/ InjuriesConvertTeam \/ NewsConvertTeam
    \/ OddsSharkConvertTeam \/ OddsSharkTeamsProvided \/ OddsSharkScrape
SpecTeam == InitConversions /\ [][NextTeam]_vars

----------------------------------------------------------------------------
(* dqc.NameConverter and convert_name *)

\* Player names are whole texts here; the converter's normalisation and its
\* alias table are given for the names the pages of the model carry.
Normalize(name) ==
    CASE name = "King James " -> "King James"
      [] name = "Nene Hilario Jr." -> "Nene Hilario"
      [] OTHER -> name

AliasTable == [n \in {"King James", "LeBron James"} |-> "LeBron James"]

\* scrape.clean_html on a name: the white space around it is stripped.
clean_html_name(name) == IF name = "King James " THEN "King James" ELSE name

\* The log is an ordered set: a raw name is appended unless it is there.
AppendNew(log, name) ==
    IF \E i \in 1..Len(log) : log[i] = name THEN log ELSE Append(log, name)

\* name_converter.clean(name) with the log as it is before and after.
\* A name the table does not hold is returned normalised and logged.
NameConverter_clean(log, name) ==
    IF Normalize(name) \in DOMAIN AliasTable
    THEN [ret |-> AliasTable[Normalize(name)], log |-> log, failed |-> {}]
    ELSE [ret |-> Normalize(name), log |-> AppendNew(log, name),
          failed |-> {name}]

\* convert_name(name): clean never raises, so the except branch is not taken.
convert_name(log, name) == NameConverter_clean(log, name)

\* df[col] = df[col].apply(convert_name), row after row.  Rows count in
\* n_conv how often their name went through convert_name.
RECURSIVE apply_convert_name(_, _, _)
apply_convert_name(log, rows, col) ==
    IF rows = <<>> THEN [rows |-> <<>>, log |-> log, failed |-> {}]
    ELSE LET head == apply_convert_name(log, SubSeq(rows, 1, Len(rows) - 1), col)
             last == rows[Len(rows)]
             c == convert_name(head.log, last[col])
         IN  [rows |-> Append(head.rows,
                              [last EXCEPT ![col] = c.ret,
                                           !.n_conv = last.n_conv + 1]),
              log |-> c.log,
              failed |-> head.failed \cup c.failed]

\* A printed line.
Line(kind, what) == [kind |-> kind, what |-> what]
Lines(kind, what, printed) == [i \in 1..Len(printed) |-> Line(kind, what)]

\* if name_converter.some_names_missing: print the header and every name
names_report(log) ==
    IF log = <<>> THEN <<>>
    ELSE <<Line("names-header", "")>> \o [i \in 1..Len(log) |-> Line("name", log[i])]

----------------------------------------------------------------------------
(* Scrape sessions.  A process imports the module once and then constructs *)
(* scrapers and runs their scrape(), one after the other.                  *)

Resting == pc \in {"idle", "returned", "raised"}

\* What every constructor and page load leaves behind.
Constructed(class, n) ==
    /\ Resting
    /\ sessions < MaxSessions
    /\ sessions' = sessions + 1
    /\ scraper' = class
    /\ pc' = "extract"
    /\ todo' = n
    /\ todo_rows' = 0
    /\ team' = None
    /\ df' = <<>>
    /\ matchup_teams' = <<>>
    /\ stdout' = <<>>
    /\ failed_now' = {}
    /\ n_finish' = 0
    /\ UNCHANGED <<clockVars, callVars, unhandled_names>>

NoNews ==
    /\ early_thresh' = None
    /\ max_pages' = 0
    /\ page_count' = 0
    /\ depth' = 0
    /\ clicks' = 0
    /\ filtered' = FALSE

\* ---- DailyNBALineups ----

\* The games a lineups page may show; a cell is one starter.
LineupsGames ==
    {[away_team |-> "Lakers", home_team |-> "Bulls",
      away |-> <<[name |-> "King James", pos |-> "SF",
                  sal |-> <<<<"$", "8", ".", "7", "K">>,
                            <<"$", "1", "0", ".", "0", "K">>>>]>>,
      home |-> <<[name |-> "LeBron James", pos |-> "SF",
                  sal |-> <<<<"$", "8", ".", "7", "K">>>>]>>],
     [away_team |-> "Supersonics", home_team |-> "Celtics",
      away |-> <<[name |-> "Nene Hilario Jr.", pos |-> "C", sal |-> <<>>]>>,
      home |-> <<>>]}

\* _extract_team_starters, with the team set by _extract_game_starters
extract_team_starters(cells, team_name) ==
    [i \in 1..Len(cells) |->
        [name |-> cells[i].name, pos |-> cells[i].pos,
         fds |-> extract_team_starters_salaries(cells[i].sal).val.fds,
         dks |-> extract_team_starters_salaries(cells[i].sal).val.dks,
         team |-> PyStr(team_name), n_conv |-> 0]]

extract_game_starters(tag) ==
    extract_team_starters(tag.away, tag.away_team)
        \o extract_team_starters(tag.home, tag.home_team)

\* df['team'] = df['team'].apply(self.convert_team)
lineups_convert_teams(rows) ==
    [i \in 1..Len(rows) |->
        [rows[i] EXCEPT !.team = DailyNBALineups_convert_team(rows[i].team.val).ret]]

RECURSIVE lineups_team_lines(_)
lineups_team_lines(rows) ==
    IF rows = <<>> THEN <<>>
    ELSE Lines("team", rows[1].team.val,
               DailyNBALineups_convert_team(rows[1].team.val).out)
            \o lineups_team_lines(Tail(rows))

\* DailyNBALineups() and the page load at the start of scrape()
LineupsStart ==
    /\ \E n \in 0..MaxRows : Constructed("DailyNBALineups", n)
    /\ NoNews

\* one pass of 'for game_tag in game_tags'
LineupsExtractGame ==
    /\ scraper = "DailyNBALineups" /\ pc = "extract" /\ todo > 0
    /\ \E game_tag \in LineupsGames :
          df' = df \o extract_game_starters(game_tag)
    /\ todo' = todo - 1
    /\ UNCHANGED <<clockVars, callVars, unhandled_names, sessions, scraper, pc,
                   todo_rows, team, matchup_teams, stdout, newsVars,
                   failed_now, n_finish>>

\* the rest of scrape(): teams and names are converted, the names reported
LineupsFinish ==
    /\ scraper = "DailyNBALineups" /\ pc = "extract" /\ todo = 0
    /\ LET named == apply_convert_name(unhandled_names,
                                       lineups_convert_teams(df), "name")
       IN  /\ df' = named.rows
           /\ unhandled_names' = named.log
           /\ failed_now' = failed_now \cup named.failed
           /\ stdout' = stdout \o lineups_team_lines(df)
                               \o names_report(named.log)
    /\ pc' = "returned"
    /\ n_finish' = n_finish + 1
    /\ UNCHANGED <<clockVars, callVars, sessions, scraper, todo, todo_rows,
                   team, matchup_teams, newsVars>>

\* ---- RotoWorldInjuries ----

InjuriesTeams == {"Los Angeles Lakers", "Supersonics"}

\* The injury rows a team may show.
InjuryRows ==
    {[player |-> "King James", pid |-> 1,
      report_date |-> <<"J", "a", "n", " ", "1", "1">>,
      start_date |-> <<"D", "e", "c", " ", "3", "0">>],
     [player |-> "Nene Hilario Jr.", pid |-> 2,
      report_date |-> <<"F", "e", "b", " ", "3", "0">>,
      start_date |-> <<"F", "e", "b", " ", "9">>]}

\* extract_info_from_inj_row: the row and the lines parse_date printed
extract_info_from_inj_row(row, team_code) ==
    LET report == RotoWorldInjuries_parse_date(year, month,
                                               clean_html(row.report_date))
        start == RotoWorldInjuries_parse_date(year, month, row.start_date)
    IN  [row |-> [team |-> team_code, player |-> row.player, pid |-> row.pid,
                  report_date |-> report.ret, start_date |-> start.ret,
                  n_conv |-> 0],
         out |-> Lines("date", row.report_date, report.out)
                    \o Lines("date", row.start_date, start.out)]

\* RotoWorldInjuries(): the clock is read, the page is loaded
InjuriesStart ==
    /\ \E n \in 0..MaxTeams : Constructed("RotoWorldInjuries", n)
    /\ NoNews

\* 'for team_row in team_rows' up to its inner loop: the team is converted
InjuriesTeamRow ==
    /\ scraper = "RotoWorldInjuries" /\ pc = "extract"
    /\ todo > 0 /\ todo_rows = 0
    /\ \E label \in InjuriesTeams :
          /\ team' = RotoWorldInjuries_convert_team(label).ret
          /\ stdout' = stdout \o Lines("team", label,
                                       RotoWorldInjuries_convert_team(label).out)
    /\ todo' = todo - 1
    /\ todo_rows' \in 1..MaxRows
    /\ UNCHANGED <<clockVars, callVars, unhandled_names, sessions, scraper, pc,
                   df, matchup_teams, newsVars, failed_now, n_finish>>

\* one pass of 'for inj_row in inj_rows'
InjuriesInjRow ==
    /\ scraper = "RotoWorldInjuries" /\ pc = "extract" /\ todo_rows > 0
    /\ \E inj_row \in InjuryRows :
          LET r == extract_info_from_inj_row(inj_row, team)
          IN  /\ df' = Append(df, r.row)
              /\ stdout' = stdout \o r.out
    /\ todo_rows' = todo_rows - 1
    /\ UNCHANGED <<clockVars, callVars, unhandled_names, sessions, scraper, pc,
                   todo, team, matchup_teams, newsVars, failed_now, n_finish>>

\* the rest of scrape(): names are converted and reported
InjuriesFinish ==
    /\ scraper = "RotoWorldInjuries" /\ pc = "extract"
    /\ todo = 0 /\ todo_rows = 0
    /\ LET named == apply_convert_name(unhandled_names, df, "player")
       IN  /\ df' = named.rows
           /\ unhandled_names' = named.log
           /\ failed_now' = failed_now \cup named.failed
           /\ stdout' = stdout \o names_report(named.log)
    /\ pc' = "returned"
    /\ n_finish' = n_finish + 1
    /\ UNCHANGED <<clockVars, callVars, sessions, scraper, todo, todo_rows,
                   team, matchup_teams, newsVars>>

\* ---- RotoWorldNews ----

n_pages_update == 5

\* The news items a page may show.  The other columns of a row
\* (links, report, impact, source) are texts that scrape() only cleans.
NewsTags ==
    {[player |-> "King James ", team |-> "Lakers", related |-> <<>>,
      date |-> DateTimeText(3, 3, 1, 5, <<"P", "M">>)],
     [player |-> "Nene Hilario Jr.", team |-> "Supersonics",
      related |-> <<"King James">>,
      date |-> DateTimeText(3, 1, 11, 30, <<"A", "M">>)],
     [player |-> "LeBron James", team |-> "Bulls",
      related |-> <<"Nene Hilario Jr.">>,
      date |-> DateTimeText(3, 2, 12, 5, <<"P", "M">>)]}

\* The thresholds given to the constructor: one between the dates of the
\* items, one that is the date of an item, one before all of them.
NewsThresholds ==
    {Datetime(NewsYear, 3, 2, 0, 0), Datetime(NewsYear, 3, 1, 11, 30),
     Datetime(NewsYear, 1, 1, 0, 0)}

\* _parse_related_players: the names of the related players, converted
RECURSIVE parse_related_players(_, _)
parse_related_players(log, names) ==
    IF names = <<>> THEN [ret |-> <<>>, log |-> log, failed |-> {}]
    ELSE LET head == parse_related_players(log, SubSeq(names, 1, Len(names) - 1))
             c == convert_name(head.log, names[Len(names)])
         IN  [ret |-> Append(head.ret, c.ret), log |-> c.log,
              failed |-> head.failed \cup c.failed]

\* create_news_row: the row, the lines printed, the log afterwards
create_news_row(log, tag) ==
    LET t == RotoWorldNews_convert_team(tag.team)
        rel == parse_related_players(log, tag.related)
    IN  [row |-> [player |-> tag.player, team |-> t.ret,
                  date |-> RotoWorldNews_parse_date(tag.date),
                  related |-> IF tag.related = <<>> THEN None
                              ELSE [kind |-> "names", val |-> rel.ret],
                  n_conv |-> 0],
         out |-> Lines("team", tag.team, t.out),
         log |-> rel.log,
         failed |-> rel.failed]

\* The order of timestamps.
Minutes(dt) ==
    ((((dt.year - NewsYear) * 12 + dt.month) * 31 + dt.day) * 24 + dt.hour) * 60
        + dt.minute
Dates(rows) == {rows[i].date : i \in 1..Len(rows)} \ {None}

\* self.df['date'].min(): missing dates are skipped; None when all are missing
min_date(rows) ==
    IF Dates(rows) = {} THEN None
    ELSE CHOOSE a \in Dates(rows) : \A b \in Dates(rows) : Minutes(a) <= Minutes(b)

\* the comparison of the filter with >= in place of >
Mut_is_later_or_equal(date, thresh) ==
    date # None /\ Minutes(date) >= Minutes(thresh)

\* df['date'] > early_thresh for one row: a missing date is not later
is_later(date, thresh) ==
    date # None /\ Minutes(date) > Minutes(thresh)

\* self.df[self.df['date'] > self.early_thresh]
RECURSIVE later_than(_, _)
later_than(rows, thresh) ==
    IF rows = <<>> THEN <<>>
    ELSE IF is_later(rows[1].date, thresh)
         THEN <<rows[1]>> \o later_than(Tail(rows), thresh)
         ELSE later_than(Tail(rows), thresh)

\* scrape()'s decision with page_count > max_pages in place of >=
Mut_scrape_terminate_late(rows, thresh, count, maxp) ==
    IF min_date(rows) = None THEN "TypeError"
    ELSE IF Minutes(min_date(rows)) <= Minutes(thresh) THEN "threshold"
    ELSE IF count > maxp THEN "max_pages"
    ELSE "older"

\* What a frame of scrape() decides once the page is counted.  When no row
\* has a date, min() gives NaN, and NaN <= early_thresh raises TypeError.
scrape_terminate(rows, thresh, count, maxp) ==
    IF min_date(rows) = None THEN "TypeError"
    ELSE IF Minutes(min_date(rows)) <= Minutes(thresh) THEN "threshold"
    ELSE IF count >= maxp THEN "max_pages"
    ELSE "older"

\* RotoWorldNews(sleep, early_thresh, max_pages), and scrape() is called
NewsStart ==
    /\ \E n \in 1..MaxNewsRows : Constructed("RotoWorldNews", n)
    /\ early_thresh' \in NewsThresholds
    /\ max_pages' \in 0..MaxPages
    /\ page_count' = 0
    /\ depth' = 1
    /\ clicks' = 0
    /\ filtered' = FALSE

\* one pass of 'for tag in news_tags'
NewsCreateRow ==
    /\ scraper = "RotoWorldNews" /\ pc = "extract" /\ todo > 0
    /\ \E tag \in NewsTags :
          LET r == create_news_row(unhandled_names, tag)
          IN  /\ df' = Append(df, r.row)
              /\ stdout' = stdout \o r.out
              /\ unhandled_names' = r.log
              /\ failed_now' = failed_now \cup r.failed
    /\ todo' = todo - 1
    /\ UNCHANGED <<clockVars, callVars, sessions, scraper, pc, todo_rows, team,
                   matchup_teams, newsVars, n_finish>>

\* The page is counted and scrape() decides: it terminates, or clicks the
\* button for older news and calls itself on the page that loads.  An
\* exception leaves every frame of scrape().
NewsEndPage ==
    /\ scraper = "RotoWorldNews" /\ pc = "extract" /\ todo = 0
    /\ page_count' = page_count + 1
    /\ LET progress == IF page_count' % n_pages_update = 0
                       THEN <<Line("progress", "Finished page")>> ELSE <<>>
           terminate == scrape_terminate(df, early_thresh, page_count', max_pages)
       IN  CASE terminate = "TypeError" ->
                   /\ stdout' = stdout \o progress
                   /\ pc' = "raised"
                   /\ depth' = 0
                   /\ UNCHANGED <<df, todo, clicks, filtered>>
             [] terminate = "threshold" ->
                   /\ df' = later_than(df, early_thresh)
                   /\ filtered' = TRUE
                   /\ stdout' = stdout \o progress
                   /\ pc' = "finish"
                   /\ UNCHANGED <<todo, depth, clicks>>
             [] terminate = "max_pages" ->
                   /\ stdout' = stdout \o progress
                                   \o <<Line("max-pages", "Warning: Exceeded max_pages")>>
                   /\ pc' = "finish"
                   /\ UNCHANGED <<df, todo, depth, clicks, filtered>>
             [] terminate = "older" ->
                   /\ stdout' = stdout \o progress
                   /\ clicks' = clicks + 1
                   /\ depth' = depth + 1
                   /\ todo' \in 1..MaxNewsRows
                   /\ UNCHANGED <<df, pc, filtered>>
    /\ UNCHANGED <<clockVars, callVars, unhandled_names, sessions, scraper,
                   todo_rows, team, matchup_teams, early_thresh, max_pages,
                   failed_now, n_finish>>

\* The finishing step of one frame of scrape(): the text columns are
\* cleaned, the names converted and reported, and the frame returns.
NewsFinish ==
    /\ scraper = "RotoWorldNews" /\ pc = "finish"
    /\ LET cleaned == [i \in 1..Len(df) |->
                          [df[i] EXCEPT !.player = clean_html_name(df[i].player)]]
           named == apply_convert_name(unhandled_names, cleaned, "player")
       IN  /\ df' = named.rows
           /\ unhandled_names' = named.log
           /\ failed_now' = failed_now \cup named.failed
           /\ stdout' = stdout \o names_report(named.log)
    /\ n_finish' = n_finish + 1
    /\ depth' = depth - 1
    /\ pc' = IF depth = 1 THEN "returned" ELSE "finish"
    /\ UNCHANGED <<clockVars, callVars, sessions, scraper, todo, todo_rows,
                   team, matchup_teams, early_thresh, max_pages, page_count,
                   clicks, filtered>>

\* ---- OddsShark ----

\* OddsShark(sleep), and the page load at the start of scrape()
OddsSharkStart ==
    /\ \E n \in 0..MaxMatchups : Constructed("OddsShark", n)
    /\ NoNews

\* one pass of 'for match in matchups'
OddsSharkExtractTeams ==
    /\ scraper = "OddsShark" /\ pc = "extract" /\ todo > 0
    /\ \E top \in MatchupLabels, bottom \in MatchupLabels :
          matchup_teams' = Append(matchup_teams, <<top, bottom>>)
    /\ todo' = todo - 1
    /\ UNCHANGED <<clockVars, callVars, unhandled_names, sessions, scraper, pc,
                   todo_rows, team, df, stdout, newsVars, failed_now, n_finish>>

\* the rest of scrape(): the rows are compiled and the teams converted
OddsSharkCompile ==
    /\ scraper = "OddsShark" /\ pc = "extract" /\ todo = 0
    /\ LET r == OddsShark_scrape_compile(matchup_teams)
       IN  /\ df' = IF r.ret.raised THEN compile_rows(matchup_teams)
                    ELSE r.ret.val
           /\ stdout' = stdout \o Lines("team", "", r.out)
           /\ pc' = IF r.ret.raised THEN "raised" ELSE "returned"
    /\ UNCHANGED <<clockVars, callVars, unhandled_names, sessions, scraper,
                   todo, todo_rows, team, matchup_teams, newsVars, failed_now,
                   n_finish>>

\* ---- the process ----

Init ==
    /\ year = 2024            \* the sessions are run in March 2024
    /\ month = 3
    /\ NoCall
    /\ NoSession

Next ==
    \/ LineupsStart \/ LineupsExtractGame \/ LineupsFinish
    \/ InjuriesStart \/ InjuriesTeamRow \/ InjuriesInjRow \/ InjuriesFinish
    \/ NewsStart \/ NewsCreateRow \/ NewsEndPage \/ NewsFinish
    \/ OddsSharkStart \/ OddsSharkExtractTeams \/ OddsSharkCompile

Spec == Init /\ [][Next]_vars

\* scrape() is running: one of its steps can be taken.
NewsRunning == scraper = "RotoWorldNews" /\ pc \in {"extract", "finish"}

\* The states in which a pass of the loop over news_tags, and a finishing
\* step, can be taken: the guards of NewsCreateRow and of NewsFinish.
CreateRowEnabled == scraper = "RotoWorldNews" /\ pc = "extract" /\ todo > 0
FinishEnabled == scraper = "RotoWorldNews" /\ pc = "finish"

\* A call of scrape() is sequential code that runs on once it is called:
\* each of its steps is weakly fair.  For NewsCreateRow and NewsFinish the
\* fairness condition is written with ENABLED replaced by the guard, which
\* spares the model checker the name conversions when it evaluates ENABLED.
SpecLive ==
    /\ Spec
    /\ WF_vars(NewsEndPage)
    /\ ([]<>(~CreateRowEnabled) \/ []<><<NewsCreateRow>>_vars)
    /\ ([]<>(~FinishEnabled) \/ []<><<NewsFinish>>_vars)

\* The guards are what ENABLED is for these two steps.
GuardsAreEnabled ==
    /\ CreateRowEnabled <=> ENABLED <<NewsCreateRow>>_vars
    /\ FinishEnabled <=> ENABLED <<NewsFinish>>_vars

----------------------------------------------------------------------------
(* Properties of the date conversions, checked under SpecDate *)

\* The year the backward-rollover rule gives a description of month mo.
RolloverYear(mo) == IF mo > month THEN year - 1 ELSE year

\* C1: RotoWorldInjuries.parse_date resolves a date-only description of
\* month m and day d, d being a day of that month in the resolved year, to
\* year Y-1 when m is after the reference month and to year Y otherwise,
\* with month m and day d.
C1_InjuriesDateRollsBack ==
    (/\ fn = "RotoWorldInjuries.parse_date"
     /\ src.form = "date-only"
     /\ src.d \in 1..DaysInMonth(RolloverYear(src.mo), src.mo))
    => ret = Return(Datetime(RolloverYear(src.mo), src.mo, src.d, 0, 0))

\* 'Dec' seen from March 2024 has been resolved to 2023.
C1_Witness ==
    /\ fn = "RotoWorldInjuries.parse_date"
    /\ src.form = "date-only"
    /\ year = 2024 /\ month = 3 /\ src.mo = 12 /\ src.d = 31
    /\ ret = Return(Datetime(2023, 12, 31, 0, 0))

\* C2: the year of a timestamp RotoWorldNews.parse_date resolves follows the
\* backward-rollover rule.
C2_NewsDateRollsBack ==
    (/\ fn = "RotoWorldNews.parse_date"
     /\ src.form = "date-time"
     /\ ret.val.kind = "datetime")
    => ret.val.year = RolloverYear(src.mo)

\* The descriptions C7 is about: of the date-with-time layout, a day of the
\* month in the year the timestamp is given, a minute, an hour from 1 to 12.
ValidDateTime ==
    /\ fn = "RotoWorldNews.parse_date"
    /\ src.form = "date-time"
    /\ src.d \in 1..DaysInMonth(NewsYear, src.mo)
    /\ src.mi \in 0..59
    /\ src.h \in 1..12

\* C7 as stated: the hour of day is h + 12 for PM and h for AM, for every
\* hour h from 1 to 12; 12 PM is resolved as hour 24.
C7_HourOfDay ==
    ValidDateTime =>
        /\ ret.val.kind = "datetime"
        /\ ret.val.hour = IF src.pm THEN src.h + 12 ELSE src.h

\* C7 amended: the hour of day is h for AM (12 AM gives hour 12) and h + 12
\* for PM when h is from 1 to 11; 12 PM is not resolved: None is returned.
C7_HourOfDayAmended ==
    ValidDateTime =>
        IF src.pm /\ src.h = 12 THEN ret = Return(None)
        ELSE ret = Return(Datetime(NewsYear, src.mo, src.d,
                                   IF src.pm THEN src.h + 12 ELSE src.h,
                                   src.mi))

\* A description of 12 PM has been given to parse_date, and None came back.
C7_Witness ==
    /\ ValidDateTime
    /\ src.pm /\ src.h = 12
    /\ ret = Return(None)

----------------------------------------------------------------------------
(* Properties of the salary conversion, checked under SpecSalary *)

\* C5: convert_salary gives a shorthand '$t.hK' exactly t*1000 + h*100.
C5_SalaryValue ==
    (/\ fn = "convert_salary"
     /\ src.form = "shorthand" /\ src.pre = <<>> /\ src.suf = <<>>)
    => ret = Return(PyInt(src.t * 1000 + src.h * 100))

\* '$10.0K' has been converted to 10000.
C5_Witness ==
    /\ fn = "convert_salary"
    /\ arg = <<"$", "1", "0", ".", "0", "K">>
    /\ ret = Return(PyInt(10000))

\* s is exactly of the accepted form: '$', one or two digits, '.', a digit, 'K'.
IsAcceptedForm(s) ==
    /\ Len(s) \in {5, 6}
    /\ s[1] = "$"
    /\ \A i \in 2..(Len(s) - 3) : s[i] \in Digit
    /\ s[Len(s) - 2] = "."
    /\ s[Len(s) - 1] \in Digit
    /\ s[Len(s)] = "K"

\* some part of s is of the accepted form
ContainsAcceptedForm(s) ==
    \E i \in 1..Len(s) : \E j \in i..Len(s) : IsAcceptedForm(SubSeq(s, i, j))

\* The salary of a row is missing when its link is absent or failed to convert.
MissingWhenFailed(failedText(_)) ==
    fn = "_extract_team_starters" =>
        /\ ~ret.raised
        /\ (Len(arg) < 1 \/ failedText(arg[1])) => ret.val.fds = NaN
        /\ (Len(arg) < 2 \/ failedText(arg[2])) => ret.val.dks = NaN

NotAccepted(s) == ~IsAcceptedForm(s)
NotContained(s) == ~ContainsAcceptedForm(s)

\* C6 as stated: for every text that is not exactly of the accepted form,
\* also one with characters before or after a shorthand, convert_salary
\* fails and returns no integer, and the row's salary is left missing.
C6_MalformedFails ==
    /\ (fn = "convert_salary" /\ ~IsAcceptedForm(arg)) => ret.raised
    /\ MissingWhenFailed(NotAccepted)

\* C6 amended: convert_salary fails (IndexError, no integer returned) for
\* exactly the texts no part of which is of the accepted form; characters
\* before or after a shorthand are ignored and the shorthand is converted.
\* In _extract_team_starters a failure leaves the salary missing.
C6_MalformedFailsAmended ==
    /\ fn = "convert_salary" =>
          /\ ret.raised <=> ~ContainsAcceptedForm(arg)
          /\ ret.raised => ret.exc = "IndexError"
          /\ (src.form = "shorthand") =>
                ret = Return(PyInt(src.t * 1000 + src.h * 100))
    /\ MissingWhenFailed(NotContained)

\* A shorthand without its currency marker has been refused.
C6_Witness ==
    /\ fn = "convert_salary"
    /\ src.form = "no-marker"
    /\ ret = Raise("IndexError")

----------------------------------------------------------------------------
(* Properties of the team conversions, checked under SpecTeam *)

ClassOf(f) ==
    CASE f = "DailyNBALineups.convert_team" -> "DailyNBALineups"
      [] f = "RotoWorldInjuries.convert_team" -> "RotoWorldInjuries"
      [] f = "RotoWorldNews.convert_team" -> "RotoWorldNews"
      [] f = "OddsShark.convert_team" -> "OddsShark"

IsConvertTeam == src.form = "team"

\* C3 as stated: every convert_team returns None for a label that is not a
\* key of its table, and the mapped code for a key; it does not raise.
C3_UnknownTeamIsNone ==
    IsConvertTeam =>
        /\ ~ret.raised
        /\ arg \notin DOMAIN team_conversion(ClassOf(fn)) => ret.val = None
        /\ arg \in DOMAIN team_conversion(ClassOf(fn)) =>
              ret.val = PyStr(team_conversion(ClassOf(fn))[arg])

\* C3 amended: for a label that is not a key of its table, convert_team of
\* DailyNBALineups and RotoWorldNews returns None, and convert_team of
\* RotoWorldInjuries and OddsShark returns the label unchanged; each prints
\* a diagnostic and none raises.  For a key, each returns the mapped code.
C3_UnknownTeamAmended ==
    IsConvertTeam =>
        /\ ~ret.raised
        /\ arg \notin DOMAIN team_conversion(ClassOf(fn)) =>
              /\ ret.val = IF ClassOf(fn) \in {"DailyNBALineups", "RotoWorldNews"}
                           THEN None ELSE PyStr(arg)
              /\ out # <<>>
        /\ arg \in DOMAIN team_conversion(ClassOf(fn)) =>
              /\ ret.val = PyStr(team_conversion(ClassOf(fn))[arg])
              /\ out = <<>>

\* RotoWorldInjuries.convert_team was given a mascot, which is no key of its
\* full-name table, and handed it back.
C3_Witness ==
    /\ fn = "RotoWorldInjuries.convert_team"
    /\ arg = "Lakers"
    /\ ret = Return(PyStr("Lakers"))

\* The number of labels of a batch that are keys of the short-name table.
ShortLabels(ms) ==
    Cardinality({p \in (1..Len(ms)) \X {1, 2} :
                    ms[p[1]][p[2]] \in DOMAIN ShortNameTable})

\* C4: for every batch, the empty one too, teams_provided_in_short_name
\* returns a boolean, true exactly when more than half of the labels are
\* keys of the short-name table; scrape converts the team and opp columns
\* in that case only.
C4_MajorityVote ==
    /\ fn = "OddsShark.teams_provided_in_short_name" =>
          /\ ~ret.raised
          /\ ret.val = PyBool(2 * ShortLabels(arg) > 2 * Len(arg))
    /\ fn = "OddsShark.scrape" =>
          /\ ~ret.raised
          /\ \A i \in 1..Len(ret.val) :
                LET raw == IF i % 2 = 1 THEN arg[(i + 1) \div 2][1]
                           ELSE arg[i \div 2][2]
                IN  ret.val[i].team =
                        IF 2 * ShortLabels(arg) > 2 * Len(arg)
                        THEN OddsShark_convert_team(raw).ret ELSE PyStr(raw)

----------------------------------------------------------------------------
(* Properties of the scrape sessions, checked under Spec *)

\* C8: the unresolved names a session reports are names that failed to
\* resolve during that session; a name that failed only in an earlier
\* session of the process is not reported.
C8_ReportOnlyThisSession ==
    \A i \in 1..Len(stdout) :
        stdout[i].kind = "name" => stdout[i].what \in failed_now

DiagnosticKinds == {"team", "date", "names-header", "name"}
RecordsRemain == pc = "extract" /\ (todo > 0 \/ todo_rows > 0)

\* C9: while records of the session remain to be extracted, no diagnostic
\* (failed team conversion, failed date parse, unresolved name) has been
\* printed.
C9_DiagnosticsAfterExtraction ==
    RecordsRemain => \A i \in 1..Len(stdout) : stdout[i].kind \notin DiagnosticKinds

\* C10: when RotoWorldNews.scrape has returned, whatever the number of pages
\* loaded, the finishing step has run once and the name of every row has
\* gone through convert_name exactly once.
C10_NamesConvertedOnce ==
    (scraper = "RotoWorldNews" /\ pc = "returned") =>
        /\ n_finish = 1
        /\ \A i \in 1..Len(df) : df[i].n_conv = 1

----------------------------------------------------------------------------
(* Properties of RotoWorldNews.scrape, checked under SpecLive and Spec *)

NewsEnded == scraper = "RotoWorldNews" /\ pc \in {"returned", "raised"}
NewsReturned == scraper = "RotoWorldNews" /\ pc = "returned"

\* The 'older news' button is clicked in this step.
OlderClicked == clicks' > clicks

\* C11: every call of RotoWorldNews.scrape ends; when max_pages >= 1,
\* page_count never exceeds max_pages; the 'older news' button is clicked
\* only when the earliest scraped date is later than early_thresh and
\* page_count is below max_pages; and when scrape has returned, the button
\* has been clicked page_count - 1 times.
C11_ScrapeTerminates ==
    /\ [](scraper = "RotoWorldNews" /\ max_pages >= 1 => page_count <= max_pages)
    /\ [][OlderClicked =>
              /\ \E i \in 1..Len(df) : df[i].date # None
              /\ \A i \in 1..Len(df) :
                    df[i].date # None =>
                        Minutes(df[i].date) > Minutes(early_thresh)
              /\ page_count' < max_pages]_vars
    /\ [](NewsReturned => clicks = page_count - 1)
    /\ (NewsRunning ~> NewsEnded)

\* scrape has returned after loading max_pages pages, more than one.
C11_Witness ==
    NewsReturned /\ max_pages >= 2 /\ page_count = max_pages /\ clicks >= 1

\* The table has fewer rows after this step than before it.
RowsRemoved == Len(df') < Len(df)

\* C12: when RotoWorldNews.scrape has returned, no row of its table has a
\* date at or before early_thresh; within a call, rows leave the table only
\* in the step that applies the threshold filter, which keeps the rows
\* dated after early_thresh in their order; and once the filter has been
\* applied the table gets no further row.
C12_ThresholdFilter ==
    /\ [](NewsReturned =>
            \A i \in 1..Len(df) :
                df[i].date = None
                    \/ Minutes(df[i].date) > Minutes(early_thresh))
    /\ [][(scraper' = "RotoWorldNews" /\ sessions' = sessions) =>
              /\ RowsRemoved =>
                    /\ ~filtered /\ filtered'
                    /\ df' = SelectSeq(df, LAMBDA r :
                                r.date # None
                                    /\ Minutes(r.date) > Minutes(early_thresh))
              /\ filtered => Len(df') = Len(df)]_vars

\* scrape has returned after the filter, applied on a later page than the
\* first, removed a row and kept one.
C12_Witness ==
    NewsReturned /\ filtered /\ page_count >= 2
        /\ Len(df) >= 1 /\ Len(df) < page_count

====
